---- MODULE Spec2Model ----
(***************************************************************************)
(* rowmap (src/index.js): a factory that builds, for a list of headers, a  *)
(* constructor DynamicMapper whose prototype carries one accessor per      *)
(* header and one per column offset, all reading and writing the array     *)
(* handed to the constructor.                                              *)
(*                                                                         *)
(* The prototype is modelled as a property table (key -> property          *)
(* descriptor) that Object.defineProperty updates under the rules of       *)
(* ECMAScript's ValidateAndApplyPropertyDescriptor; property reads and     *)
(* writes on an instance follow the prototype chain                        *)
(* instance -> DynamicMapper.prototype -> Object.prototype.                *)
(***************************************************************************)
EXTENDS Integers, Sequences, FiniteSets, TLC

\* ---------------------------------------------------------------- bounds
\* longest header list handed to rowmap
MaxFields == 2
\* longest array handed to DynamicMapper
MaxLen == 2

\* ------------------------------------------------------------ JS values
Undefined == "undefined"
\* the reference to the array the caller handed to DynamicMapper
ArrayRef == "ref:values"
\* the function objects a property read can return
FnDynamicMapper == "fn:DynamicMapper"
FnToJSON == "fn:toJSON"
FnObjectPrototype == "fn:Object.prototype"

\* messages of the errors the code or the runtime raises
NoError == "none"
HeadersError == "Headers must be an array or provided in a configuration object."
IndexReadOnlyError == "\"index\" is a read-only property when not part of the headers."
ArrayReadOnlyError == "\"array\" is a read-only property when not part of the headers."
TypeError == "TypeError"

\* header names used as inputs: an ordinary name, the two reserved names, a
\* generated prototype member, an inherited built-in member and two names
\* that are the decimal forms of column offsets
FieldNames == {"id", "index", "array", "toJSON", "toString", "0", "1"}

\* ToString of a column offset, the property key of a numeric index
Digits == <<"0", "1", "2", "3", "4", "5", "6", "7", "8", "9">>
OffKey(i) == Digits[i + 1]

Offsets == 0 .. MaxFields
\* the two well-known symbols the prototype is given members for
SymbolIterator == "@@iterator"
SymbolToPrimitive == "@@toPrimitive"
FnIterator == "fn:iterator"
FnToPrimitive == "fn:toPrimitive"

Keys == FieldNames \cup {OffKey(i) : i \in Offsets}
             \cup {"toJSON", "constructor", "index", "array",
                   SymbolIterator, SymbolToPrimitive}

\* members every object inherits from Object.prototype
ObjectPrototypeKeys == {"constructor", "toString", "valueOf", "hasOwnProperty",
                        "isPrototypeOf", "propertyIsEnumerable", "toLocaleString"}

\* cell contents: the caller's initial cells are distinct per position
InitCell(i) == "v" \o OffKey(i)
NewVals == {"w"}
RowIndexes == {Undefined, "r7"}

\* -------------------------------------------------- property descriptors
Absent == [kind |-> "absent", target |-> 0, value |-> Undefined,
           enumerable |-> FALSE, configurable |-> FALSE, writable |-> FALSE]

\* DynamicMapper.prototype as the function declaration creates it
FreshPrototype ==
  [k \in Keys |->
     IF k = "constructor"
     THEN [kind |-> "data", target |-> 0, value |-> FnDynamicMapper,
           enumerable |-> FALSE, configurable |-> TRUE, writable |-> TRUE]
     ELSE Absent]

\* an accessor pair { get, set } with the attributes the call names;
\* hasConfigurable is FALSE when the call leaves configurable out
AccessorAttrs(kind, target, enumerable, hasConfigurable, configurable) ==
  [kind |-> kind, target |-> target, value |-> Undefined,
   enumerable |-> enumerable, hasConfigurable |-> hasConfigurable,
   configurable |-> configurable, writable |-> FALSE]

DataAttrs(value, enumerable) ==
  [kind |-> "data", target |-> 0, value |-> value,
   enumerable |-> enumerable, hasConfigurable |-> FALSE,
   configurable |-> FALSE, writable |-> FALSE]

\* Object.defineProperty(target, key, attrs) on a property table pt =
\* [err, tbl]; every get/set/value in the source is a fresh function, so a
\* non-configurable property can never be redefined
DefineProperty(pt, key, attrs) ==
  IF pt.err THEN pt
  ELSE LET cur == pt.tbl[key] IN
    IF cur.kind = "absent"
    THEN [err |-> FALSE,
          tbl |-> [pt.tbl EXCEPT ![key] =
             [kind |-> attrs.kind, target |-> attrs.target, value |-> attrs.value,
              enumerable |-> attrs.enumerable,
              configurable |-> attrs.hasConfigurable /\ attrs.configurable,
              writable |-> attrs.writable]]]
    ELSE IF ~cur.configurable
    THEN [err |-> TRUE, tbl |-> pt.tbl]
    ELSE [err |-> FALSE,
          tbl |-> [pt.tbl EXCEPT ![key] =
             [kind |-> attrs.kind, target |-> attrs.target, value |-> attrs.value,
              enumerable |-> attrs.enumerable,
              configurable |-> IF attrs.hasConfigurable THEN attrs.configurable
                               ELSE cur.configurable,
              writable |-> attrs.writable]]]

\* slip: own properties only
ReflectHas_ownOnly(tbl, key) == tbl[key].kind # "absent"

\* Reflect.has(target, key): own or inherited
ReflectHas(tbl, key) == tbl[key].kind # "absent" \/ key \in ObjectPrototypeKeys

\* ------------------------------------------------------------ the factory
VARIABLES
  options,        \* the argument of the rowmap call
  status,         \* "start", "made" (DynamicMapper returned) or "failed"
  uniqueHeaders,  \* closure variable of rowmap, read by toJSON
  proto,          \* DynamicMapper.prototype, a property table
  this,           \* the instance: [VALUES, ROW_INDEX], Undefined before construction
  own,            \* own properties of the instance other than the two symbols
  values,         \* the elements of the caller's array
  last,           \* the last operation: [op, key, arg, ret, err]
  before,         \* [values, this, own] as they were when the last operation began
  obj,            \* the object the last toJSON call returned
  seq,            \* the elements the last iteration yielded
  kept            \* the object of an earlier toJSON call that the caller holds

vars ==
  <<options, status, uniqueHeaders, proto, this, own, values, last, before, obj, seq, kept>>

HeaderLists == UNION {[1 .. n -> FieldNames] : n \in 0 .. MaxFields}

\* [...new Set(headers)]: first occurrences, in order
RECURSIVE SetOf(_, _)
SetOf(hs, acc) ==
  IF hs = <<>> THEN acc
  ELSE IF \E j \in 1 .. Len(acc) : acc[j] = Head(hs)
       THEN SetOf(Tail(hs), acc)
       ELSE SetOf(Tail(hs), Append(acc, Head(hs)))

Includes(hs, name) == \E j \in 1 .. Len(hs) : hs[j] = name

\* the destructuring of lines 14-20: an array is the header list itself,
\* anything else is read as a configuration object
Destructure(opts) ==
  IF opts.kind = "array"
  THEN [tag |-> "array", headers |-> opts.headers,
        preventCollisions |-> FALSE, index |-> TRUE, array |-> TRUE]
  ELSE IF opts.kind = "record"
  THEN [tag |-> opts.tag, headers |-> opts.headers,
        preventCollisions |-> opts.preventCollisions,
        index |-> opts.index, array |-> opts.array]
  ELSE [tag |-> "undefined", headers |-> <<>>,
        preventCollisions |-> FALSE, index |-> TRUE, array |-> TRUE]

\* slip: the accessor is bound one column to the right
definePropertyForHeader_shifted(target, key, colIndex, configurable) ==
  DefineProperty(target, key, AccessorAttrs("column", colIndex + 1, TRUE, TRUE, configurable))

definePropertyForHeader(target, key, colIndex, configurable) ==
  DefineProperty(target, key, AccessorAttrs("column", colIndex, TRUE, TRUE, configurable))

\* slip: a name that is already bound keeps its first binding
defineOverwritablePropertyForHeader_keepFirst(target, key, colIndex) ==
  IF ~target.err /\ target.tbl[key].kind = "column" THEN target
  ELSE definePropertyForHeader(target, key, colIndex, TRUE)

defineOverwritablePropertyForHeader(target, key, colIndex) ==
  definePropertyForHeader(target, key, colIndex, TRUE)

\* slip: a name that is already bound is bound again
defineUniquePropertyForHeader_rebind(target, key, colIndex) ==
  definePropertyForHeader(target, key, colIndex, TRUE)

defineUniquePropertyForHeader(target, key, colIndex) ==
  IF target.err \/ ReflectHas(target.tbl, key) THEN target
  ELSE definePropertyForHeader(target, key, colIndex, FALSE)

definePropertyForIndex(prototype) ==
  DefineProperty(prototype, "index", AccessorAttrs("index", 0, FALSE, TRUE, TRUE))

definePropertyForArray(prototype) ==
  DefineProperty(prototype, "array", AccessorAttrs("array", 0, FALSE, TRUE, TRUE))

\* slip: the reserved accessor is defined whether or not a header has
\* the name
ReservedWanted_always(enabled, inHeaders) == enabled

\* the conditions of lines 69 and 74: enabled and not a header
ReservedWanted(enabled, inHeaders) == enabled /\ ~inHeaders

\* headers.forEach(callback, DynamicMapper.prototype), from position i on
RECURSIVE ForEachHeader(_, _, _, _)
ForEachHeader(pt, hs, i, preventCollisions) ==
  IF i >= Len(hs) THEN pt
  ELSE ForEachHeader(
         IF preventCollisions
         THEN defineUniquePropertyForHeader(pt, hs[i + 1], i)
         ELSE defineOverwritablePropertyForHeader(pt, hs[i + 1], i),
         hs, i + 1, preventCollisions)

\* slip: the loop runs one offset past the headers
RECURSIVE NumericIndexing_oneMore(_, _, _)
NumericIndexing_oneMore(pt, n, i) ==
  IF i > n THEN pt
  ELSE NumericIndexing_oneMore(
         DefineProperty(pt, OffKey(i), AccessorAttrs("column", i, FALSE, FALSE, FALSE)),
         n, i + 1)

\* the loop of lines 79-85, from position i on
RECURSIVE NumericIndexing(_, _, _)
NumericIndexing(pt, n, i) ==
  IF i >= n THEN pt
  ELSE NumericIndexing(
         DefineProperty(pt, OffKey(i), AccessorAttrs("column", i, FALSE, FALSE, FALSE)),
         n, i + 1)

PrototypeMethods(pt) ==
  DefineProperty(
    DefineProperty(
      DefineProperty(pt, "toJSON", DataAttrs(FnToJSON, FALSE)),
      SymbolIterator, DataAttrs(FnIterator, FALSE)),
    SymbolToPrimitive, DataAttrs(FnToPrimitive, FALSE))

\* rowmap(options): [err, uniqueHeaders, proto]
rowmap(opts) ==
  LET failed(e) == [err |-> e, uniqueHeaders |-> <<>>, proto |-> FreshPrototype]
      o == Destructure(opts)
      \* line 21; new Set(x) takes undefined and null as empty, a string as
      \* its characters, and raises on a number
      setFails == o.preventCollisions /\ o.tag = "number"
      uniqueTag == IF o.preventCollisions THEN "array" ELSE o.tag
      unique == IF o.preventCollisions THEN SetOf(o.headers, <<>>) ELSE o.headers
      \* lines 22-23: .includes exists on arrays and strings only
      includesFails == uniqueTag \in {"undefined", "null", "number"}
      hasIndexInHeaders == Includes(unique, "index")
      hasArrayInHeaders == Includes(unique, "array")
      p1 == PrototypeMethods([err |-> FALSE, tbl |-> FreshPrototype])
      \* line 63: .forEach exists on arrays only
      forEachFails == o.tag # "array"
      p2 == ForEachHeader(p1, o.headers, 0, o.preventCollisions)
      p3 == IF ReservedWanted(o.index, hasIndexInHeaders)
            THEN definePropertyForIndex(p2) ELSE p2
      p4 == IF ReservedWanted(o.array, hasArrayInHeaders)
            THEN definePropertyForArray(p3) ELSE p3
      p5 == NumericIndexing(p4, Len(o.headers), 0)
  IN IF opts.kind \in {"undefined", "null"} THEN failed(HeadersError)
     ELSE IF setFails \/ includesFails \/ forEachFails THEN failed(TypeError)
     ELSE IF p5.err THEN failed(TypeError)
     ELSE [err |-> NoError, uniqueHeaders |-> unique, proto |-> p5.tbl]

NoOp == [op |-> "none", key |-> Undefined, arg |-> Undefined, ret |-> Undefined,
         err |-> NoError]
NoThis == [VALUES |-> Undefined, ROW_INDEX |-> Undefined]
\* own[k] = Missing: the instance has no own property k
Missing == "<missing>"
NoOwn == [k \in Keys |-> Missing]
Snapshot == [values |-> values, this |-> this, own |-> own]
\* the caller holds no object: kept.id is the object's identity, kept.map
\* its properties now, kept.taken its properties when toJSON returned it and
\* kept.touched the keys the caller has assigned on it since
NoMapping == [id |-> Undefined, map |-> <<>>, taken |-> <<>>, touched |-> {}]

\* the arguments rowmap is called with
OptionsInputs ==
  {[kind |-> k, tag |-> "undefined", headers |-> <<>>,
    preventCollisions |-> FALSE, index |-> TRUE, array |-> TRUE]
     : k \in {"undefined", "null", "number", "string"}}
  \cup
  {[kind |-> "array", tag |-> "array", headers |-> hs,
    preventCollisions |-> FALSE, index |-> TRUE, array |-> TRUE]
     : hs \in HeaderLists}
  \cup
  {[kind |-> "record", tag |-> "array", headers |-> hs,
    preventCollisions |-> pc, index |-> ix, array |-> ar]
     : hs \in HeaderLists, pc \in BOOLEAN, ix \in BOOLEAN, ar \in BOOLEAN}
  \cup
  {[kind |-> "record", tag |-> t, headers |-> <<>>,
    preventCollisions |-> pc, index |-> TRUE, array |-> TRUE]
     : t \in {"undefined", "null", "number", "string"}, pc \in BOOLEAN}

Init ==
  /\ options = [kind |-> "undefined", tag |-> "undefined", headers |-> <<>>,
                preventCollisions |-> FALSE, index |-> TRUE, array |-> TRUE]
  /\ status = "start"
  /\ uniqueHeaders = <<>>
  /\ proto = FreshPrototype
  /\ this = NoThis
  /\ own = NoOwn
  /\ values = <<>>
  /\ last = NoOp
  /\ before = Snapshot
  /\ obj = <<>>
  /\ seq = <<>>
  /\ kept = NoMapping

\* const Row = rowmap(opts), for opts one of inputs
CreateFrom(inputs) ==
  /\ status = "start"
  /\ \E opts \in inputs :
       LET r == rowmap(opts) IN
         /\ options' = opts
         /\ status' = IF r.err = NoError THEN "made" ELSE "failed"
         /\ uniqueHeaders' = r.uniqueHeaders
         /\ proto' = r.proto
         /\ last' = [op |-> "rowmap", key |-> Undefined, arg |-> Undefined,
                     ret |-> IF r.err = NoError THEN FnDynamicMapper ELSE Undefined,
                     err |-> r.err]
  /\ before' = Snapshot
  /\ UNCHANGED <<this, own, values, obj, seq, kept>>

Create == CreateFrom(OptionsInputs)

\* ----------------------------------------------------------- the instance
\* function DynamicMapper(values, rowIndex), called with new (isNew) or
\* without; NoThis stands for a call that returns undefined
\* slip: a plain call falls through and returns nothing
DynamicMapper_noRedirect(isNew, vals, rowIndex) ==
  IF ~isNew THEN NoThis ELSE [VALUES |-> vals, ROW_INDEX |-> rowIndex]

RECURSIVE DynamicMapper(_, _, _)
DynamicMapper(isNew, vals, rowIndex) ==
  IF ~isNew
  THEN DynamicMapper(TRUE, vals, rowIndex)
  ELSE [VALUES |-> vals, ROW_INDEX |-> rowIndex]

\* slip: a read past the end gives the last element
ArrayGet_clamped(arr, i) ==
  IF arr = <<>> THEN Undefined
  ELSE IF i < Len(arr) THEN arr[i + 1] ELSE arr[Len(arr)]

\* array[i], no value past the end
ArrayGet(arr, i) == IF i < Len(arr) THEN arr[i + 1] ELSE Undefined

\* array[i] = v; an assignment past the end lengthens the array with holes
ArraySet(arr, i, v) ==
  IF i < Len(arr) THEN [arr EXCEPT ![i + 1] = v]
  ELSE [j \in 1 .. i + 1 |-> IF j <= Len(arr) THEN arr[j]
                             ELSE IF j = i + 1 THEN v ELSE Undefined]

\* getColumnValue (lines 99-101) and the numeric get (line 81)
getColumnValue(colIndex) == ArrayGet(values, colIndex)
\* getIndexValue (lines 125-127)
getIndexValue == this.ROW_INDEX
\* slip: a copy of the array is handed out
getArrayValue_copy == "ref:copy"

\* getArrayValue (lines 139-141)
getArrayValue == this.VALUES

\* instance[key]: own property, then DynamicMapper.prototype, then
\* Object.prototype
Get(key) ==
  IF own[key] # Missing THEN own[key]
  ELSE LET d == proto[key] IN
    CASE d.kind = "column" -> getColumnValue(d.target)
      [] d.kind = "index" -> getIndexValue
      [] d.kind = "array" -> getArrayValue
      [] d.kind = "data" -> d.value
      [] OTHER -> IF key \in ObjectPrototypeKeys THEN FnObjectPrototype ELSE Undefined

\* setColumnValue (lines 102-104) and the numeric set (line 82)
setColumnValue(colIndex, v) == ArraySet(values, colIndex, v)

\* slip: the message of the other reserved accessor
setIndexValue_otherName == ArrayReadOnlyError

\* setIndexValue (lines 128-130): what it throws
setIndexValue == IndexReadOnlyError
\* setArrayValue (lines 142-144): what it throws
setArrayValue == ArrayReadOnlyError

\* instance[key] = v: [values, own, err]; strict is the mode of the
\* assigning code, which decides whether a refused assignment raises
Put(key, v, strict) ==
  LET keep == [values |-> values, own |-> own, err |-> NoError]
      d == proto[key]
  IN IF own[key] # Missing
     THEN [keep EXCEPT !.own = [own EXCEPT ![key] = v]]
     ELSE CASE d.kind = "column" -> [keep EXCEPT !.values = setColumnValue(d.target, v)]
            [] d.kind = "index" -> [keep EXCEPT !.err = setIndexValue]
            [] d.kind = "array" -> [keep EXCEPT !.err = setArrayValue]
            [] d.kind = "data" /\ ~d.writable ->
                 [keep EXCEPT !.err = IF strict THEN TypeError ELSE NoError]
            [] OTHER -> [keep EXCEPT !.own = [own EXCEPT ![key] = v]]

\* slip: the cell at the key's place in uniqueHeaders instead of this[key]
RECURSIVE toJSON_byPlace(_, _)
toJSON_byPlace(hs, acc) ==
  IF hs = <<>> THEN acc
  ELSE toJSON_byPlace(Tail(hs),
              [k \in DOMAIN acc \cup {Head(hs)} |->
                 IF k = Head(hs) THEN ArrayGet(values, Len(uniqueHeaders) - Len(hs))
                 ELSE acc[k]])

\* toJSON (lines 36-42): obj[key] = this[key] for each of uniqueHeaders
RECURSIVE toJSON(_, _)
toJSON(hs, acc) ==
  IF hs = <<>> THEN acc
  ELSE toJSON(Tail(hs),
              [k \in DOMAIN acc \cup {Head(hs)} |->
                 IF k = Head(hs) THEN Get(k) ELSE acc[k]])

\* slip: one element per header instead of one per array element
RECURSIVE iterator_perHeader(_, _)
iterator_perHeader(i, acc) ==
  IF i >= Len(options.headers) THEN acc
  ELSE iterator_perHeader(i + 1, Append(acc, ArrayGet(values, i)))

\* the array iterator behind iterator() (lines 48-50), collected from i on
RECURSIVE iterator(_, _)
iterator(i, acc) ==
  IF i >= Len(values) THEN acc
  ELSE iterator(i + 1, Append(acc, ArrayGet(values, i)))

\* String(array) (line 57): the elements joined by commas, undefined as
\* the empty string
ElementText(v) == IF v = Undefined THEN "" ELSE v
RECURSIVE toPrimitive(_)
toPrimitive(i) ==
  IF i >= Len(values) THEN ""
  ELSE IF i = Len(values) - 1 THEN ElementText(ArrayGet(values, i))
  ELSE ElementText(ArrayGet(values, i)) \o "," \o toPrimitive(i + 1)

\* the property keys the modelled caller reads and writes: the headers,
\* the offsets of the schema, the offsets past the schema up to the longest
\* array's last cell and at least one, and the two reserved names
AccessKeys ==
  {options.headers[j] : j \in 1 .. Len(options.headers)}
    \cup {OffKey(i) : i \in 0 .. Len(options.headers)}
    \cup {OffKey(i) : i \in 0 .. MaxLen - 1}
    \cup {"index", "array"}

Live == status = "made" /\ this # NoThis

\* the modes of the assigning code that change what an assignment to key
\* does: strict and sloppy code differ on a refused assignment only
Modes(key) ==
  IF own[key] = Missing /\ proto[key].kind = "data" /\ ~proto[key].writable
  THEN BOOLEAN ELSE {FALSE}

\* Row(vals, rowIndex) or new Row(vals, rowIndex)
Construct ==
  /\ status = "made"
  /\ this = NoThis
  /\ \E isNew \in BOOLEAN, n \in 0 .. MaxLen, rowIndex \in RowIndexes :
       /\ values' = [j \in 1 .. n |-> InitCell(j - 1)]
       /\ this' = DynamicMapper(isNew, ArrayRef, rowIndex)
       /\ last' = [op |-> IF isNew THEN "new" ELSE "call", key |-> Undefined,
                   arg |-> rowIndex, ret |-> Undefined, err |-> NoError]
  /\ before' = Snapshot
  /\ obj' = <<>>
  /\ seq' = <<>>
  /\ UNCHANGED <<options, status, uniqueHeaders, proto, own, kept>>

\* instance[key]
Read ==
  /\ Live
  /\ \E key \in AccessKeys :
       last' = [op |-> "get", key |-> key, arg |-> Undefined, ret |-> Get(key),
                err |-> NoError]
  /\ before' = Snapshot
  /\ obj' = <<>>
  /\ seq' = <<>>
  /\ UNCHANGED <<options, status, uniqueHeaders, proto, this, own, values, kept>>

\* instance[key] = v
Write ==
  /\ Live
  /\ \E key \in AccessKeys, v \in NewVals :
     \E strict \in Modes(key) :
       LET r == Put(key, v, strict) IN
         /\ values' = r.values
         /\ own' = r.own
         /\ last' = [op |-> "set", key |-> key, arg |-> v, ret |-> Undefined,
                     err |-> r.err]
  /\ before' = Snapshot
  /\ obj' = <<>>
  /\ seq' = <<>>
  /\ UNCHANGED <<options, status, uniqueHeaders, proto, this, kept>>

\* slip: one object is created once and handed out by every call
NewObject_cached == "obj#1"

\* const obj = {} (line 37): an object that is none of those still held
NewObject == IF kept.id = "obj#1" THEN "obj#2" ELSE "obj#1"

\* instance.toJSON(): the properties are stored on the object NewObject
\* designates, which the call returns
ToJSON ==
  /\ Live
  /\ Get("toJSON") = FnToJSON
  /\ LET id == NewObject
         filled == toJSON(uniqueHeaders, IF id = kept.id THEN kept.map ELSE <<>>)
     IN /\ obj' = filled
        /\ kept' = IF id = kept.id THEN [kept EXCEPT !.map = filled] ELSE kept
        /\ last' = [op |-> "toJSON", key |-> Undefined, arg |-> Undefined,
                    ret |-> id, err |-> NoError]
  /\ before' = Snapshot
  /\ seq' = <<>>
  /\ UNCHANGED <<options, status, uniqueHeaders, proto, this, own, values>>

\* [...instance]
Iterate ==
  /\ Live
  /\ seq' = iterator(0, <<>>)
  /\ last' = [op |-> "iterate", key |-> Undefined, arg |-> Undefined,
              ret |-> Undefined, err |-> NoError]
  /\ before' = Snapshot
  /\ obj' = <<>>
  /\ UNCHANGED <<options, status, uniqueHeaders, proto, this, own, values, kept>>

\* String(instance)
Stringify ==
  /\ Live
  /\ last' = [op |-> "String", key |-> Undefined, arg |-> Undefined,
              ret |-> toPrimitive(0), err |-> NoError]
  /\ before' = Snapshot
  /\ obj' = <<>>
  /\ seq' = <<>>
  /\ UNCHANGED <<options, status, uniqueHeaders, proto, this, own, values, kept>>

\* the mutations a caller makes through the array it reads from
\* instance.array: an element assignment, reverse() and push(v)
ArrayOps == {"array[i]=", "array.reverse", "array.push"}
Reverse(arr) == [j \in 1 .. Len(arr) |-> arr[Len(arr) + 1 - j]]
Mutated(arr, op, i, v) ==
  CASE op = "array[i]=" -> ArraySet(arr, i, v)
    [] op = "array.reverse" -> Reverse(arr)
    [] op = "array.push" -> Append(arr, v)

\* instance.array[i] = v, instance.array.reverse(), instance.array.push(v):
\* the mutation reaches the caller's array when the reference read is that
\* array's, and the attempt raises when what is read is no array
MutateArray ==
  /\ Live
  /\ \E op \in ArrayOps, i \in 0 .. MaxLen - 1, v \in NewVals :
       LET ref == Get("array") IN
         /\ op # "array[i]=" => i = 0
         /\ op = "array.push" => Len(values) < MaxLen
         /\ values' = IF ref = ArrayRef THEN Mutated(values, op, i, v) ELSE values
         /\ last' = [op |-> op, key |-> OffKey(i), arg |-> v, ret |-> ref,
                     err |-> IF ref = ArrayRef THEN NoError ELSE TypeError]
  /\ before' = Snapshot
  /\ obj' = <<>>
  /\ seq' = <<>>
  /\ UNCHANGED <<options, status, uniqueHeaders, proto, this, own, kept>>

Next ==
  Create \/ Construct \/ Read \/ Write \/ ToJSON \/ Iterate \/ Stringify \/ MutateArray

Spec == Init /\ [][Next]_vars

\* ------------------------------------------- objects returned by toJSON
\* const earlier = instance.toJSON(): the caller holds on to the object the
\* call just returned; it holds on to one object
Hold ==
  /\ Live
  /\ last.op = "toJSON"
  /\ kept.id = Undefined
  /\ kept' = [id |-> last.ret, map |-> obj, taken |-> obj, touched |-> {}]
  /\ last' = [last EXCEPT !.op = "hold"]
  /\ UNCHANGED <<options, status, uniqueHeaders, proto, this, own, values, before, obj, seq>>

\* what the caller assigns on an object it holds, and under which keys: the
\* keys the object has and one it has not
MappingVals == {"m"}
MappingKeys == DOMAIN kept.map \cup {"extra"}

\* earlier[key] = v on the plain object the caller holds
ModifyMapping ==
  /\ Live
  /\ kept.id # Undefined
  /\ \E key \in MappingKeys, v \in MappingVals :
       /\ kept' = [kept EXCEPT
                     !.map = [k \in DOMAIN kept.map \cup {key} |->
                                IF k = key THEN v ELSE kept.map[k]],
                     !.touched = @ \cup {key}]
       /\ last' = [op |-> "mapping[k]=", key |-> key, arg |-> v, ret |-> Undefined,
                   err |-> NoError]
  /\ before' = Snapshot
  /\ obj' = <<>>
  /\ seq' = <<>>
  /\ UNCHANGED <<options, status, uniqueHeaders, proto, this, own, values>>

\* the mappers whose objects the caller holds on to: header lists over an
\* ordinary name, an inherited member and an offset, under both policies
KeptNames == {"id", "toString", "0"}
KeptInputs ==
  {o \in OptionsInputs :
     /\ o.kind = "record" /\ o.tag = "array" /\ o.index /\ o.array
     /\ \A j \in 1 .. Len(o.headers) : o.headers[j] \in KeptNames}
CreateKept == CreateFrom(KeptInputs)

NextKept ==
  \/ CreateKept \/ Construct \/ Read \/ Write \/ MutateArray
  \/ ToJSON \/ Hold \/ ModifyMapping

SpecKept == Init /\ [][NextKept]_vars

\* ------------------------------------------------------------ properties
\* the schema and policy of the mapper under test
F == options.headers
Policy == Destructure(options)
Positions == 0 .. Len(F) - 1
Names == {F[j] : j \in 1 .. Len(F)}
PositionsOf(n) == {i \in Positions : F[i + 1] = n}
FirstPosition(n) == CHOOSE i \in PositionsOf(n) : \A j \in PositionsOf(n) : i <= j
LastPosition(n) == CHOOSE i \in PositionsOf(n) : \A j \in PositionsOf(n) : i >= j
NoDuplicates == \A n \in Names : Cardinality(PositionsOf(n)) = 1
\* n is the decimal form of the offset of a position other than i
OffsetOfAnother(n, i) == \E j \in Positions : j # i /\ n = OffKey(j)
\* no header is the decimal form of the offset of another position
NoOffsetNames == \A i \in Positions : ~OffsetOfAnother(F[i + 1], i)

\* what arr[i] holds, no value past the end
Cell(arr, i) == IF i + 1 \in DOMAIN arr THEN arr[i + 1] ELSE Undefined
Longest == IF Len(values) >= Len(before.values) THEN Len(values) ELSE Len(before.values)
\* the last operation left every cell but that of offset i as it was
OnlyCellChanged(i) ==
  \A j \in 0 .. Longest - 1 : j # i => Cell(values, j) = Cell(before.values, j)
\* the last operation left the instance and the array as they were
NothingChanged == values = before.values /\ this = before.this /\ own = before.own

\* the last operation assigned through key and stored into offset i alone
StoredAt(key, i) ==
  (last.op = "set" /\ last.key = key) =>
     /\ last.err = NoError
     /\ Cell(values, i) = last.arg
     /\ OnlyCellChanged(i)
     /\ this = before.this /\ own = before.own

\* C1 as stated: under the default policy, for every duplicate-free header
\* list and every array at least as long, the header accessor and the offset
\* accessor of each position both read that position's cell, and a write
\* through either stores into that cell and changes no other.
C1_AsStated ==
  (Live /\ ~Policy.preventCollisions /\ NoDuplicates /\ Len(values) >= Len(F)) =>
    \A i \in Positions :
      /\ Get(F[i + 1]) = values[i + 1]
      /\ Get(OffKey(i)) = values[i + 1]
      /\ StoredAt(F[i + 1], i)
      /\ StoredAt(OffKey(i), i)

\* C1 as amended: the same, for header lists in which no name is the decimal
\* form of another position's offset.
C1_ReadAfterWrite ==
  (Live /\ ~Policy.preventCollisions /\ NoDuplicates /\ NoOffsetNames
        /\ Len(values) >= Len(F)) =>
    \A i \in Positions :
      /\ Get(F[i + 1]) = values[i + 1]
      /\ Get(OffKey(i)) = values[i + 1]
      /\ StoredAt(F[i + 1], i)
      /\ StoredAt(OffKey(i), i)

\* a two-column mapper whose first column was just overwritten by name,
\* the second cell still holding what the caller put there
C1_Witness ==
  /\ Live /\ ~Policy.preventCollisions /\ NoDuplicates /\ NoOffsetNames
  /\ Len(F) = 2 /\ Len(values) = 2
  /\ last.op = "set" /\ last.key = F[1] /\ last.key # OffKey(0)
  /\ before.values[1] = InitCell(0)
  /\ values[1] = "w" /\ Get(OffKey(0)) = "w" /\ Get(F[2]) = InitCell(1)

\* the last iteration yielded the array's cells, one per position, in order
YieldedAll ==
  last.op = "iterate" =>
     /\ Len(seq) = Len(values)
     /\ \A j \in 0 .. Len(values) - 1 : seq[j + 1] = Cell(values, j)

\* the offset accessor of every position reads and writes that position
OffsetsExposeAll ==
  \A i \in Positions : Get(OffKey(i)) = Cell(values, i) /\ StoredAt(OffKey(i), i)

\* C2 as stated: under the default policy a name at several positions reads
\* and writes the cell of its last position, and every position stays
\* readable and writable by offset and appears in iteration.
C2_AsStated ==
  (Live /\ ~Policy.preventCollisions) =>
    \A n \in Names : Cardinality(PositionsOf(n)) > 1 =>
      /\ Get(n) = Cell(values, LastPosition(n))
      /\ StoredAt(n, LastPosition(n))
      /\ OffsetsExposeAll
      /\ YieldedAll

\* C2 as amended: the same, for names that are not the decimal form of the
\* offset of a position other than their last.
C2_LastWins ==
  (Live /\ ~Policy.preventCollisions) =>
    \A n \in Names :
      (Cardinality(PositionsOf(n)) > 1 /\ ~OffsetOfAnother(n, LastPosition(n))) =>
        /\ Get(n) = Cell(values, LastPosition(n))
        /\ StoredAt(n, LastPosition(n))
        /\ OffsetsExposeAll
        /\ YieldedAll

\* a mapper over one name twice, just written by name: the last cell took
\* the value, the first still holds what the caller put there and is read
\* by offset
C2_Witness ==
  /\ Live /\ ~Policy.preventCollisions
  /\ Len(F) = 2 /\ F[1] = F[2] /\ F[1] # OffKey(0) /\ Len(before.values) = 2
  /\ last.op = "set" /\ last.key = F[1]
  /\ before.values = <<InitCell(0), InitCell(1)>>
  /\ values = <<InitCell(0), "w">> /\ Get(F[1]) = "w" /\ Get(OffKey(0)) = InitCell(0)

\* the position whose cell the collision policy gives name n
PolicyPosition(n) ==
  IF Policy.preventCollisions THEN FirstPosition(n) ELSE LastPosition(n)

\* C3 as stated: with preventCollisions every name in the header list reads
\* and writes the cell of its first position, and every position stays
\* readable and writable by offset and appears in iteration.
C3_AsStated ==
  (Live /\ Policy.preventCollisions) =>
    \A n \in Names :
      /\ Get(n) = Cell(values, FirstPosition(n))
      /\ StoredAt(n, FirstPosition(n))
      /\ OffsetsExposeAll
      /\ YieldedAll

\* n was a member of the prototype chain before the headers were bound: an
\* own member of the prototype or a member of Object.prototype
MemberBeforeHeaders(n) ==
  \/ PrototypeMethods([err |-> FALSE, tbl |-> FreshPrototype]).tbl[n].kind # "absent"
  \/ n \in ObjectPrototypeKeys

\* C3 as amended: the same, for the names that were not already members of
\* the prototype chain when the headers were bound; a name that was (toJSON,
\* constructor, the members of Object.prototype) gets no accessor.
C3_FirstWins ==
  (Live /\ Policy.preventCollisions) =>
    \A n \in Names :
      IF MemberBeforeHeaders(n)
      THEN proto[n].kind # "column"
      ELSE /\ Get(n) = Cell(values, FirstPosition(n))
           /\ StoredAt(n, FirstPosition(n))
           /\ OffsetsExposeAll
           /\ YieldedAll

\* a mapper with preventCollisions over one name twice, just written by
\* name: the first cell took the value, the last still holds what the caller
\* put there and is read by offset
C3_Witness ==
  /\ Live /\ Policy.preventCollisions
  /\ Len(F) = 2 /\ F[1] = F[2] /\ ~MemberBeforeHeaders(F[1])
  /\ last.op = "set" /\ last.key = F[1]
  /\ before.values = <<InitCell(0), InitCell(1)>>
  /\ values = <<"w", InitCell(1)>> /\ Get(F[1]) = "w" /\ Get(OffKey(1)) = InitCell(1)

BoundByPolicy(n) ==
  /\ ~OffsetOfAnother(n, PolicyPosition(n))
  /\ Policy.preventCollisions => ~MemberBeforeHeaders(n)

HasReserved(name) == proto[name].kind = name
Enabled(name) == IF name = "index" THEN Policy.index ELSE Policy.array
Reserved == {"index", "array"}

\* C5 as stated: the reserved accessor index (array) exists exactly when its
\* flag is enabled and no header has the name; index then reads the row
\* position handed to the constructor, no value when none was; with the flag
\* disabled and no such header, reading the name yields no value; when a
\* header has the name it is an ordinary column that reads and stores its
\* cell without raising, and the row position is not what is read.
C5_AsStated ==
  Live =>
    /\ (last.op \in {"new", "call"} => this.ROW_INDEX = last.arg)
    /\ (last.op \notin {"new", "call"} => this = before.this)
    /\ \A name \in Reserved :
         /\ HasReserved(name) <=> (Enabled(name) /\ name \notin Names)
         /\ HasReserved("index") => Get("index") = this.ROW_INDEX
         /\ (~Enabled(name) /\ name \notin Names) => Get(name) = Undefined
         /\ name \in Names =>
               /\ Get(name) = Cell(values, PolicyPosition(name))
               /\ StoredAt(name, PolicyPosition(name))
               /\ Get(name) # "r7"

\* C5 as amended: the same, the disabled name reading no value on an
\* instance that was never assigned that name (an assignment to a name the
\* prototype does not define creates an own property, which is then read).
C5_ReservedFields ==
  Live =>
    /\ (last.op \in {"new", "call"} => this.ROW_INDEX = last.arg)
    /\ (last.op \notin {"new", "call"} => this = before.this)
    /\ \A name \in Reserved :
         /\ HasReserved(name) <=> (Enabled(name) /\ name \notin Names)
         /\ HasReserved("index") => Get("index") = this.ROW_INDEX
         /\ (~Enabled(name) /\ name \notin Names /\ own[name] = Missing) =>
               Get(name) = Undefined
         /\ name \in Names =>
               /\ Get(name) = Cell(values, PolicyPosition(name))
               /\ StoredAt(name, PolicyPosition(name))
               /\ Get(name) # "r7"

\* a mapper with a header named index, built with a row position, whose
\* index column was just overwritten
C5_Witness ==
  /\ Live /\ "index" \in Names /\ Policy.index /\ this.ROW_INDEX = "r7"
  /\ last.op = "set" /\ last.key = "index" /\ last.err = NoError
  /\ Get("index") = "w" /\ values # before.values
  /\ ~HasReserved("index") /\ HasReserved("array")

\* C6: where the reserved accessor exists, every assignment to it raises the
\* error whose message names it, and leaves the array, the row position and
\* the instance as they were.
C6_ReadOnly ==
  Live =>
    \A name \in Reserved :
      (Enabled(name) /\ name \notin Names /\ last.op = "set" /\ last.key = name) =>
         /\ last.err = (IF name = "index" THEN IndexReadOnlyError ELSE ArrayReadOnlyError)
         /\ NothingChanged

\* an assignment to index was just refused on an instance whose array had
\* been written before
C6_Witness ==
  /\ Live /\ "index" \notin Names /\ Policy.index
  /\ last.op = "set" /\ last.key = "index" /\ last.err = IndexReadOnlyError
  /\ Len(values) = 2 /\ values[1] = "w" /\ this.ROW_INDEX = "r7"

\* C7: called with new or without, the mapper returns an initialised
\* instance holding the array and the row position it was handed and no
\* other property, so that the two forms leave the same state behind and
\* every later read, write, iteration, coercion and toJSON is the same.
C7_DualInvocation ==
  /\ (status = "made" /\ last.op \in {"new", "call"}) =>
        /\ this # NoThis
        /\ this = [VALUES |-> ArrayRef, ROW_INDEX |-> last.arg]
        /\ own = NoOwn
        /\ Get(SymbolIterator) = FnIterator
        /\ Get("toJSON") = FnToJSON
  /\ (last.op \notin {"none", "rowmap"}) => Live

\* the mapper was just called without new, with an array and a row position
C7_Witness ==
  /\ status = "made" /\ last.op = "call" /\ last.arg = "r7"
  /\ Len(values) = 2 /\ this.VALUES = ArrayRef /\ this.ROW_INDEX = "r7"

\* the argument of rowmap holds no array of headers
NoUsableHeaders ==
  \/ options.kind \in {"undefined", "null", "number", "string"}
  \/ options.kind = "record" /\ options.tag # "array"

\* C8 as stated: for an argument that holds no array of headers rowmap
\* raises the error whose message says that headers must be an array or
\* come in a configuration object, and returns no mapper.
C8_AsStated ==
  (last.op = "rowmap" /\ NoUsableHeaders) =>
     status = "failed" /\ last.err = HeadersError

\* C9 as stated: for every array of header names, both policies and every
\* setting of the index and array flags, rowmap returns a mapper and does
\* not raise.
C9_AsStated ==
  (last.op = "rowmap" /\ ~NoUsableHeaders) =>
     status = "made" /\ last.err = NoError

\* the text of one element and of an array in a comma-joined rendering
TextOf(v) == IF v = Undefined THEN "" ELSE v
RECURSIVE CommaJoined(_)
CommaJoined(arr) ==
  IF Len(arr) = 0 THEN ""
  ELSE IF Len(arr) = 1 THEN TextOf(arr[1])
  ELSE CommaJoined(SubSeq(arr, 1, Len(arr) - 1)) \o "," \o TextOf(arr[Len(arr)])

\* C10: whatever the schema, the policy, the array's length and the writes
\* made so far, iteration yields the array's current cells, one per position
\* in order, and string coercion gives their comma-joined text.
C10_SequenceProtocol ==
  Live =>
    /\ YieldedAll
    /\ (last.op = "iterate" => NothingChanged)
    /\ (last.op = "String" => last.ret = CommaJoined(values) /\ NothingChanged)

\* a one-name, two-position mapper over a two-cell array that was written
\* by name has just been iterated: two elements, the written one last
C10_Witness ==
  /\ Live /\ last.op = "iterate"
  /\ Len(F) = 2 /\ F[1] = F[2]
  /\ seq = <<InitCell(0), "w">>

\* string coercion of a written array
C10_WitnessText ==
  /\ Live /\ last.op = "String" /\ last.ret = "v0,w"

\* the position whose cell the named accessor of n reads is past the end of
\* the array
BoundPastEnd(n) == BoundByPolicy(n) /\ PolicyPosition(n) >= Len(values)
\* the last operation was a read that raised nothing and changed nothing
QuietRead == last.op = "get" => (last.err = NoError /\ NothingChanged)

\* C13 as stated: for every header list and every array, empty, shorter or
\* longer than the list, the header accessor and the offset accessor of a
\* position past the end of the array read no value, the key one past the
\* last offset reads no value, and no read raises or changes the array.
C13_AsStated ==
  Live =>
    /\ \A i \in Positions : i >= Len(values) =>
          Get(F[i + 1]) = Undefined /\ Get(OffKey(i)) = Undefined
    /\ Get(OffKey(Len(F))) = Undefined
    /\ QuietRead

\* C13 as amended: the offset accessor of a position past the end reads no
\* value; a header reads no value when the position its accessor is bound to
\* is past the end (the position the policy gives the name, for a name that
\* is not another position's offset and, with preventCollisions, was not
\* already a member of the prototype chain); the key one past the last
\* offset reads no value when it is no header and was never assigned on the
\* instance; no read raises or changes the array.
C13_OutOfRange ==
  Live =>
    /\ \A i \in Positions : i >= Len(values) => Get(OffKey(i)) = Undefined
    /\ \A n \in Names : BoundPastEnd(n) => Get(n) = Undefined
    /\ (OffKey(Len(F)) \notin Names /\ own[OffKey(Len(F))] = Missing) =>
          Get(OffKey(Len(F))) = Undefined
    /\ QuietRead

\* the second header of a two-column mapper was just read on an array of one
\* cell: no value came back and the array still has its one cell
C13_Witness ==
  /\ Live /\ Len(F) = 2 /\ Len(values) = 1 /\ BoundPastEnd(F[2])
  /\ last.op = "get" /\ last.key = F[2] /\ last.ret = Undefined
  /\ last.err = NoError /\ values = <<InitCell(0)>> /\ before.values = values

\* every offset of the header list has its accessor on the prototype, bound
\* to its own column
OffsetsBound ==
  \A i \in Positions : proto[OffKey(i)].kind = "column" /\ proto[OffKey(i)].target = i

\* C14 as stated: for every header list, with duplicates and with names that
\* are decimal offsets, and under both collision policies, rowmap returns a
\* mapper whose prototype has the offset accessor of every position, and on
\* its instances the offset accessor of position i reads cell i and a write
\* through it stores into cell i alone. (Lists with a name that the
\* prototype already has as a member are left aside here.)
C14_AsStated ==
  /\ (last.op = "rowmap" /\ ~NoUsableHeaders /\ \A n \in Names : ~MemberBeforeHeaders(n)) =>
        status = "made" /\ OffsetsBound
  /\ Live => OffsetsExposeAll

\* the member the prototype chain has under n before the headers are bound
MemberValue(n) ==
  LET t == PrototypeMethods([err |-> FALSE, tbl |-> FreshPrototype]).tbl
  IN IF t[n].kind = "data" THEN t[n].value ELSE FnObjectPrototype
\* the member under n can be redefined by Object.defineProperty
Redefinable(n) ==
  LET t == PrototypeMethods([err |-> FALSE, tbl |-> FreshPrototype]).tbl
  IN t[n].kind = "absent" \/ t[n].configurable
\* the last operation, if an assignment to n, left the array as it was
NeverStored(n) == (last.op = "set" /\ last.key = n) => values = before.values

\* C15 as stated: a header at position i whose name was a member of the
\* prototype chain before the headers were bound gets no accessor under
\* preventCollisions, reading the name returns that member and toJSON
\* reports it; under the default policy, when the member can be redefined,
\* the name reads cell i.
C15_AsStated ==
  Live =>
    \A i \in Positions :
      LET n == F[i + 1] IN
        MemberBeforeHeaders(n) =>
          IF Policy.preventCollisions
          THEN /\ proto[n].kind # "column"
               /\ Get(n) = MemberValue(n)
               /\ last.op = "toJSON" => obj[n] = MemberValue(n)
          ELSE Redefinable(n) => Get(n) = Cell(values, i)

\* C15 as amended: under preventCollisions such a name gets no accessor, an
\* assignment to it never reaches the array, reading it returns the member
\* as long as the name was not assigned on the instance, and toJSON reports
\* what reading it returns; under the default policy, when the member can be
\* redefined, the name reads the cell of its last position.
C15_MembersKept ==
  Live =>
    \A n \in Names :
      MemberBeforeHeaders(n) =>
        IF Policy.preventCollisions
        THEN /\ proto[n].kind # "column"
             /\ NeverStored(n)
             /\ own[n] = Missing => Get(n) = MemberValue(n)
             /\ last.op = "toJSON" => obj[n] = Get(n)
        ELSE Redefinable(n) => Get(n) = Cell(values, LastPosition(n))

\* toJSON on a mapper with preventCollisions whose first header is toString,
\* over an array whose first cell is still the caller's: the object reports
\* the inherited function, not the cell
C15_Witness ==
  /\ Live /\ Policy.preventCollisions /\ Len(F) >= 1 /\ F[1] = "toString"
  /\ Len(values) >= 1 /\ values[1] = InitCell(0)
  /\ last.op = "toJSON" /\ obj["toString"] = FnObjectPrototype
  /\ Get("toString") = FnObjectPrototype

\* the offsets past the schema
PastSchema == {k \in Offsets : k >= Len(F)}
\* the last operation, if an assignment to key, was kept on the instance and
\* left the array, and with it iteration and instance.array, as they were
KeptOnInstance(key) ==
  (last.op = "set" /\ last.key = key) =>
     /\ last.err = NoError
     /\ values = before.values /\ this = before.this
     /\ own = [before.own EXCEPT ![key] = last.arg]
     /\ Get(key) = last.arg

\* C16 as stated: for every offset k at or past the number of headers,
\* instance[k] reads no value until it is assigned, also where the array has
\* a cell k; an assignment instance[k] = v leaves the array as it was and is
\* kept on the instance, where a later instance[k] reads v.
C16_AsStated ==
  Live =>
    \A k \in PastSchema :
      /\ own[OffKey(k)] = Missing => Get(OffKey(k)) = Undefined
      /\ KeptOnInstance(OffKey(k))

\* C16 as amended: the same, for the offsets k that no header is named by;
\* a header named by the decimal form of k makes instance[k] its accessor.
C16_PastSchema ==
  Live =>
    \A k \in PastSchema :
      OffKey(k) \notin Names =>
        /\ own[OffKey(k)] = Missing => Get(OffKey(k)) = Undefined
        /\ KeptOnInstance(OffKey(k))

\* a one-header mapper over an array of two cells was just assigned at
\* offset 1: the array still holds the caller's two cells and the instance
\* reads the assigned value
C16_Witness ==
  /\ Live /\ Len(F) = 1 /\ "1" \notin Names
  /\ last.op = "set" /\ last.key = "1" /\ last.arg = "w"
  /\ values = <<InitCell(0), InitCell(1)>> /\ before.own["1"] = Missing
  /\ own["1"] = "w" /\ Get("1") = "w" /\ iterator(0, <<>>) = values

\* the raw accessor is asked for and no header takes its name
RawArray == Policy.array /\ "array" \notin Names
\* what the last mutation through instance.array must have done to the
\* array it was applied to
MutationApplied ==
  LET i == CHOOSE j \in 0 .. 9 : OffKey(j) = last.key IN
  CASE last.op = "array[i]=" ->
         /\ Cell(values, i) = last.arg /\ OnlyCellChanged(i)
         /\ Len(values) = (IF i < Len(before.values) THEN Len(before.values) ELSE i + 1)
    [] last.op = "array.reverse" ->
         /\ Len(values) = Len(before.values)
         /\ \A j \in 0 .. Len(values) - 1 :
              Cell(values, j) = Cell(before.values, Len(values) - 1 - j)
    [] last.op = "array.push" ->
         /\ Len(values) = Len(before.values) + 1
         /\ Cell(values, Len(values) - 1) = last.arg
         /\ \A j \in 0 .. Len(before.values) - 1 : Cell(values, j) = Cell(before.values, j)
    [] OTHER -> TRUE
\* every accessor and iteration read the array as it now is
AllReadCurrent ==
  /\ \A i \in Positions : Get(OffKey(i)) = Cell(values, i)
  /\ \A n \in Names : BoundByPolicy(n) => Get(n) = Cell(values, PolicyPosition(n))
  /\ Len(iterator(0, <<>>)) = Len(values)
  /\ \A j \in 0 .. Len(values) - 1 : iterator(0, <<>>)[j + 1] = Cell(values, j)

\* C11: where array is enabled and no header has the name, every read of
\* instance.array returns the reference the constructor was handed; a
\* mutation made through it (element assignment, reverse, push) is applied
\* to that one array and to nothing else, and every offset accessor, every
\* bound header and iteration then read the mutated cells, each header at
\* the position it is bound to; a write through a header or an offset is in
\* the array that instance.array returns.
C11_Aliasing ==
  (Live /\ RawArray) =>
    /\ Get("array") = ArrayRef /\ this.VALUES = ArrayRef
    /\ (last.op = "get" /\ last.key = "array") => last.ret = ArrayRef
    /\ last.op \in ArrayOps =>
         /\ last.ret = ArrayRef /\ last.err = NoError
         /\ MutationApplied
         /\ this = before.this /\ own = before.own
    /\ AllReadCurrent
    /\ (last.op = "set" /\ proto[last.key].kind = "column") =>
          Cell(values, proto[last.key].target) = last.arg

\* the array of a two-header mapper was just reversed through
\* instance.array after its first cell had been written by name: the second
\* header now reads the written value, the first the caller's second cell
C11_Witness ==
  /\ Live /\ RawArray /\ Len(F) = 2 /\ F[1] # F[2] /\ BoundByPolicy(F[1]) /\ BoundByPolicy(F[2])
  /\ last.op = "array.reverse" /\ last.ret = ArrayRef
  /\ before.values = <<"w", InitCell(1)>> /\ values = <<InitCell(1), "w">>
  /\ Get(F[1]) = InitCell(1) /\ Get(F[2]) = "w" /\ Get(OffKey(0)) = InitCell(1)
  /\ iterator(0, <<>>) = values

\* the caller holds an object of an earlier toJSON call
Holding == kept.id # Undefined
\* the held object has, under every key the caller has not assigned, what
\* toJSON stored there, and no key besides those and the assigned ones
AsTaken ==
  /\ DOMAIN kept.map = DOMAIN kept.taken \cup kept.touched
  /\ \A k \in DOMAIN kept.taken \ kept.touched : kept.map[k] = kept.taken[k]

\* C12: every toJSON call returns an object that is none of those the caller
\* holds, with exactly the header names as keys; an object held from an
\* earlier call keeps what it was returned with through every later write
\* to the instance, every mutation of the array and every later toJSON call;
\* an assignment on the held object changes that object alone, leaving the
\* array, the instance and so what every accessor reads as they were.
C12_Snapshot ==
  Live =>
    /\ last.op = "toJSON" => (last.ret # kept.id /\ DOMAIN obj = Names)
    /\ last.op = "hold" => (kept.id = last.ret /\ kept.map = obj /\ kept.taken = obj)
    /\ Holding => AsTaken
    /\ last.op = "mapping[k]=" =>
         /\ NothingChanged
         /\ kept.map[last.key] = last.arg /\ last.key \in kept.touched

\* an object taken from a mapper over id while its cell still held the
\* caller's value, the cell then written by name: the instance reads the
\* written value, the held object still has the caller's
C12_Witness ==
  /\ Live /\ Holding /\ F = <<"id">> /\ kept.touched = {}
  /\ last.op = "set" /\ last.key = "id"
  /\ Get("id") = "w" /\ values[1] = "w"
  /\ kept.map["id"] = InitCell(0)

====
